---------------------------- MODULE Spec2Model ----------------------------
(***************************************************************************)
(* Model of the binary TCP clients of the stock exchange engine            *)
(* (test_auth.py, test_client.py): the byte-level encoders, the receive    *)
(* paths over a partial-read-prone stream, and the life cycle of one       *)
(* client connection; of the session state machine, the frame codec and    *)
(* the message codec of the protocol; of the persistence test              *)
(* (scripts/test_persistence.py); and of the threads of the live dashboard *)
(* (live.py).  A byte is a number in 0..255, a byte string a sequence of   *)
(* bytes.                                                                  *)
(***************************************************************************)
EXTENDS Integers, Sequences, FiniteSets, TLC

(***************************************************************************)
(* Bounds of the model.                                                    *)
(***************************************************************************)
MaxTokenLen == 2
MaxClock == 4
MaxSends == 3
MaxFrames == 2
MaxRows == 3
MaxUpdates == 3
MaxRuns == 3

(***************************************************************************)
(* struct.pack / struct.unpack in network byte order ('!').                *)
(***************************************************************************)
\* 'B': one unsigned byte.
PackU8(n) == <<n % 256>>

\* 'I': four bytes, most significant first.
PackU32(n) ==
    << (n \div 16777216) % 256, (n \div 65536) % 256, (n \div 256) % 256, n % 256 >>

\* 'I' read back from four bytes.
UnpackU32(b) == ((b[1] * 256 + b[2]) * 256 + b[3]) * 256 + b[4]

\* A 64-bit word is kept as four 16-bit limbs, most significant first.
PackU16(n) == << (n \div 256) % 256, n % 256 >>

\* 'Q': eight bytes, most significant first.
PackU64(w) == PackU16(w[1]) \o PackU16(w[2]) \o PackU16(w[3]) \o PackU16(w[4])

\* The 64-bit word of a Python int below 2^31.
U64OfInt(n) == << 0, 0, (n \div 65536) % 65536, n % 65536 >>

\* floor(log2(q)) for q >= 1.
RECURSIVE Log2(_)
Log2(q) == IF q < 2 THEN 0 ELSE 1 + Log2(q \div 2)

RECURSIVE Pow2(_)
Pow2(k) == IF k = 0 THEN 1 ELSE 2 * Pow2(k - 1)

\* 'd': the IEEE-754 binary64 word of the price q/4 (q a positive number of
\* quarter dollars below 2^16): sign 0, biased exponent, 52-bit fraction.
DoubleWord(q) ==
    LET b     == Log2(q)
        biased == (b - 2) + 1023
        f16   == (q - Pow2(b)) * Pow2(16 - b)
    IN  << biased * 16 + (f16 \div 4096), (f16 % 4096) * 16, 0, 0 >>

PackDouble(q) == PackU64(DoubleWord(q))

\* str.encode('utf-8') of the decimal digits of n (an f-string's {n}).
RECURSIVE DecDigits(_)
DecDigits(n) ==
    IF n < 10 THEN <<48 + n>> ELSE DecDigits(n \div 10) \o <<48 + (n % 10)>>

\* The first k bytes of s, and s without them.
Take(s, k) == SubSeq(s, 1, k)
Drop(s, k) == SubSeq(s, k + 1, Len(s))

Min(a, b) == IF a < b THEN a ELSE b

\* bytes.decode('utf-8') succeeds: every character is one byte below 0x80 or a
\* lead byte followed by its continuation bytes, with no overlong form, no
\* surrogate and nothing above U+10FFFF.
Continuation(c) == c >= 128 /\ c <= 191

RECURSIVE Utf8Valid(_)
Utf8Valid(b) ==
    IF b = <<>> THEN TRUE
    ELSE LET c == b[1]
             n == IF c < 128 THEN 1
                  ELSE IF c >= 194 /\ c <= 223 THEN 2
                  ELSE IF c >= 224 /\ c <= 239 THEN 3
                  ELSE IF c >= 240 /\ c <= 244 THEN 4
                  ELSE 0
         IN  /\ n > 0
             /\ Len(b) >= n
             /\ \A i \in 2..n : Continuation(b[i])
             /\ (c = 224) => b[2] >= 160
             /\ (c = 237) => b[2] <= 159
             /\ (c = 240) => b[2] >= 144
             /\ (c = 244) => b[2] <= 143
             /\ Utf8Valid(SubSeq(b, n + 1, Len(b)))

(***************************************************************************)
(* Message types (test_auth.py MessageType, test_client.py).               *)
(***************************************************************************)
LOGIN_REQUEST == 1
LOGIN_RESPONSE == 2
SUBMIT_ORDER == 3
ORDER_RESPONSE == 4
HEARTBEAT == 5
HEARTBEAT_ACK == 6

\* The discriminant the MessageType enum lists for each variant.
MessageType ==
    [ LoginRequest |-> LOGIN_REQUEST, LoginResponse |-> LOGIN_RESPONSE,
      SubmitOrder |-> SUBMIT_ORDER, OrderResponse |-> ORDER_RESPONSE,
      Heartbeat |-> HEARTBEAT, HeartbeatAck |-> HEARTBEAT_ACK ]

\* The discriminant the order client writes.
MESSAGE_TYPE_SUBMIT_ORDER == 1

\* struct.calcsize('!IBI') and struct.calcsize('!IBBI').
LOGIN_REQUEST_HEADER_SIZE == 9
LOGIN_RESPONSE_HEADER_SIZE == 10

(***************************************************************************)
(* Encoders.                                                               *)
(***************************************************************************)
\* Mutant: the size counts the token alone, without the header.
LoginMessageSize_TokenOnly(token) == Len(token)

\* send_login_request: message_size.
LoginMessageSize(token) == LOGIN_REQUEST_HEADER_SIZE + Len(token)

\* send_login_request: full_message = header + token_bytes.
LoginRequestMessage(token) ==
    PackU32(LoginMessageSize(token)) \o PackU8(MessageType.LoginRequest)
        \o PackU32(Len(token)) \o token

\* Mutant: the quantity packed as 'I' (four bytes), as before the format fix.
PackQuantity_AsU32(n) == PackU32(n)

\* execute_trade: the quantity field of body_format '!BIIIBBQdQ'.
PackQuantity(n) == PackU64(U64OfInt(n))

\* execute_trade: packed_body_fixed.
PackedBodyFixed(o) ==
    PackU8(MESSAGE_TYPE_SUBMIT_ORDER)
        \o PackU32(Len(o.order_id)) \o PackU32(Len(o.user_id)) \o PackU32(Len(o.symbol))
        \o PackU8(o.side) \o PackU8(o.order_type)
        \o PackQuantity(o.quantity) \o PackDouble(o.price) \o PackU64(o.timestamp_ms)

\* execute_trade: message_body.
MessageBody(o) == PackedBodyFixed(o) \o o.order_id \o o.user_id \o o.symbol

\* Mutant: the length prefix does not count itself.
OrderTotalLen_NoPrefix(o) == Len(MessageBody(o))

\* execute_trade: the value of the length prefix.
OrderTotalLen(o) == 4 + Len(MessageBody(o))

\* execute_trade: full_message = header + message_body.
FullMessage(o) == PackU32(OrderTotalLen(o)) \o MessageBody(o)

(***************************************************************************)
(* Inputs.                                                                 *)
(***************************************************************************)
Alphabet == {97, 98}

\* Every byte string over Alphabet of length at most n.
RECURSIVE Strs(_)
Strs(n) ==
    IF n = 0 THEN { <<>> }
    ELSE Strs(n - 1) \cup { Append(s, c) : s \in { t \in Strs(n - 1) : Len(t) = n - 1 }, c \in Alphabet }

\* jwt_token.encode('utf-8'), over a small alphabet, and the token "abc".
Tokens == Strs(MaxTokenLen) \cup { <<97, 98, 99>> }

\* execute_trade, step 1: f"py-order-{n}", f"py-user-{n}", SYMBOLS.
OrderId(n) == <<112, 121, 45, 111, 114, 100, 101, 114, 45>> \o DecDigits(n)
UserId(n) == <<112, 121, 45, 117, 115, 101, 114, 45>> \o DecDigits(n)
SYMBOLS == { <<65, 65, 80, 76>>, <<71, 79, 79, 71, 76>> }

Orders ==
    [ order_id : { OrderId(n) : n \in {1000, 9999} },
      user_id : { UserId(n) : n \in {999} },
      symbol : SYMBOLS,
      side : {0, 1},
      order_type : {1},
      quantity : {1, 100},
      price : {400, 601},
      timestamp_ms : { <<0, 395, 53221, 26624>> } ]

NoOrder ==
    [ order_id |-> <<>>, user_id |-> <<>>, symbol |-> <<>>, side |-> 0, order_type |-> 1,
      quantity |-> 1, price |-> 400, timestamp_ms |-> <<0, 0, 0, 0>> ]

\* The peer's login response, laid out as LOGIN_RESPONSE_HEADER_FORMAT '!IBBI'
\* followed by the message.
LoginResponseFrame(total, type, success, msg) ==
    PackU32(total) \o PackU8(type) \o PackU8(success) \o PackU32(Len(msg)) \o msg

PeerMessages == { <<>>, <<79, 75>> }

\* Well-formed login responses.
ValidLoginResponses ==
    { LoginResponseFrame(LOGIN_RESPONSE_HEADER_SIZE + Len(m), LOGIN_RESPONSE, s, m) :
        s \in {0, 1}, m \in PeerMessages }

\* Login responses whose total_length is off by one, or whose type is not
\* LOGIN_RESPONSE.
BadLoginResponses ==
    { LoginResponseFrame(LOGIN_RESPONSE_HEADER_SIZE + Len(m) + d, LOGIN_RESPONSE, 1, m) :
        d \in {-1, 1}, m \in PeerMessages }
    \cup { LoginResponseFrame(LOGIN_RESPONSE_HEADER_SIZE, 9, 1, <<>>) }

\* A login response whose message is not UTF-8.
NonUtf8LoginResponses ==
    { LoginResponseFrame(LOGIN_RESPONSE_HEADER_SIZE + 1, LOGIN_RESPONSE, s, <<255>>) :
        s \in {0, 1} }

\* The peer's order response: a length prefix and an opaque payload.
OrderResponseFrame(total, payload) == PackU32(total) \o payload

OrderResponses ==
    { OrderResponseFrame(4 + Len(p), p) : p \in { <<ORDER_RESPONSE>>, <<ORDER_RESPONSE, 1, 7>> } }
    \cup { OrderResponseFrame(4, <<>>), OrderResponseFrame(3, <<>>) }
    \cup { OrderResponseFrame(17, <<ORDER_RESPONSE, 1, 7>>) }

\* Every prefix of s, s included.
Prefixes(s) == { Take(s, k) : k \in 0..Len(s) }

(***************************************************************************)
(* One client connection.                                                  *)
(***************************************************************************)
VARIABLES
    script,     \* which client runs on the connection: "auth" or "order"
    pc,         \* its position
    state,      \* the session state of the connection
    wire,       \* the bytes the client has written to the socket
    sentLog,    \* the messages sendall has written in full, with the state at the send
    token,      \* send_login_request's jwt_token, encoded
    order,      \* execute_trade's order data
    peerFrame,  \* the frame the peer answers with
    peer,       \* the peer's bytes not yet read by the client
    peerEof,    \* whether the peer closes after its bytes
    hdr,        \* header_data / resp_header_data
    body,       \* body_data / response_data
    result,     \* receive_login_response's return value
    err         \* why the connection ended

\* The session state machine (section "Session state machine" below).
VARIABLES
    sState,       \* Session.state
    sToken,       \* Session.token
    lastHbSent,   \* Session.last_heartbeat_sent (None when unset)
    lastHbAck,    \* Session.last_heartbeat_ack (None when unset)
    now,          \* the monotonic clock, in milliseconds
    closeNotes,   \* how often the owner was told to close the transport
    closeReason,  \* the error kind of that notification
    sOut,         \* the messages handed to the transport
    sErr,         \* the outcome of the last operation
    sLast,        \* the last operation attempted
    sRejected     \* whether a SubmitOrder has been rejected by the legality gate

\* The frame codec (section "Frame codec" below).
VARIABLES
    cSent,      \* the frames the peer wrote, in order
    cPending,   \* their bytes not yet read from the transport
    cBuf,       \* the inbound buffer of the byte cursor
    cOut,       \* the frames extracted so far
    cLast,      \* the outcome of the last try_extract_frame
    cSplit      \* whether an extraction found only part of a frame buffered

\* The persistence test (section "Persistence test" below).
VARIABLES
    pPc,        \* test_persistence's position
    pConn,      \* the database connection: "none", "open" or "closed"
    pSock,      \* the buyer's socket
    pSock2,     \* the seller's socket
    pOrders,    \* len(orders), None before the query
    pTrades,    \* len(trades), None before the query
    pReport,    \* the verdict printed
    pResult     \* what test_persistence returned, or "raised"

\* The live dashboard (section "Live dashboard" below).
VARIABLES
    latest_prices,  \* the last price received for the symbol
    index_values,   \* the index values received
    timestamps,     \* the times of their arrival
    lIndexPc,       \* index_stream's position
    lPlotPc,        \* plot_loop's position
    lSeenX,         \* the length of timestamps when plot_loop read it
    lSeenY,         \* the length of index_values when plot_loop read it
    lUpdates        \* the updates the streams have delivered

\* The header injection (section "License headers" below).
VARIABLES
    hFiles,     \* the files of the tree: directory path, name, whether writable
    hOrig,      \* their content before the first run
    hContent,   \* their content now
    hVisited,   \* the files the running walk has been through
    hRuns,      \* how many runs of add_header have finished
    hOnce,      \* the content of the files when the first run finished
    hCount      \* add_header's count

connVars ==
    << script, pc, state, wire, sentLog, token, order, peerFrame, peer, peerEof,
       hdr, body, result, err >>
sessVars ==
    << sState, sToken, lastHbSent, lastHbAck, now, closeNotes, closeReason, sOut, sErr, sLast,
       sRejected >>
codecVars == << cSent, cPending, cBuf, cOut, cLast, cSplit >>
persistVars == << pPc, pConn, pSock, pSock2, pOrders, pTrades, pReport, pResult >>
liveVars ==
    << latest_prices, index_values, timestamps, lIndexPc, lPlotPc, lSeenX, lSeenY, lUpdates >>
headerVars == << hFiles, hOrig, hContent, hVisited, hRuns, hOnce, hCount >>
otherVars == << persistVars, liveVars, headerVars >>
vars == << connVars, sessVars, codecVars, persistVars, liveVars, headerVars >>

None == -1

\* The session and the codec at rest.
SessionInit ==
    /\ sState = "Unauthenticated"
    /\ sToken = None
    /\ lastHbSent = None
    /\ lastHbAck = None
    /\ now = 0
    /\ closeNotes = 0
    /\ closeReason = "none"
    /\ sOut = <<>>
    /\ sErr = "none"
    /\ sLast = [ op |-> "none", kind |-> "none" ]
    /\ sRejected = FALSE

CodecIdle ==
    /\ cSent = <<>>
    /\ cPending = <<>>
    /\ cBuf = <<>>
    /\ cOut = <<>>
    /\ cLast = "none"
    /\ cSplit = FALSE

\* The persistence test and the dashboard not running.
PersistIdle ==
    /\ pPc = "idle"
    /\ pConn = "none"
    /\ pSock = "none"
    /\ pSock2 = "none"
    /\ pOrders = None
    /\ pTrades = None
    /\ pReport = "none"
    /\ pResult = "none"

LiveIdle ==
    /\ latest_prices = None
    /\ index_values = <<>>
    /\ timestamps = <<>>
    /\ lIndexPc = "idle"
    /\ lPlotPc = "idle"
    /\ lSeenX = None
    /\ lSeenY = None
    /\ lUpdates = 0

HeaderIdle ==
    /\ hFiles = <<>>
    /\ hOrig = <<>>
    /\ hContent = <<>>
    /\ hVisited = {}
    /\ hRuns = 0
    /\ hOnce = <<>>
    /\ hCount = 0

OthersIdle == PersistIdle /\ LiveIdle /\ HeaderIdle

SessionStates == { "Unauthenticated", "Authenticating", "Authenticated", "Closed" }

Init ==
    /\ script \in { "auth", "order" }
    /\ pc = "connect"
    /\ state = "Unauthenticated"
    /\ wire = <<>>
    /\ sentLog = <<>>
    /\ token \in (IF script = "auth" THEN Tokens ELSE { <<>> })
    /\ order \in (IF script = "order" THEN Orders ELSE { NoOrder })
    /\ peerFrame \in (IF script = "auth"
                        THEN ValidLoginResponses \cup BadLoginResponses
                                \cup NonUtf8LoginResponses
                        ELSE OrderResponses)
    /\ peerEof \in BOOLEAN
    /\ peer \in (IF peerEof THEN Prefixes(peerFrame) ELSE { peerFrame })
    /\ hdr = <<>>
    /\ body = <<>>
    /\ result = "none"
    /\ err = "none"
    /\ SessionInit
    /\ CodecIdle
    /\ OthersIdle

\* No client runs on the connection.
ConnIdle ==
    /\ script = "none"
    /\ pc = "closed"
    /\ state = "Unauthenticated"
    /\ wire = <<>>
    /\ sentLog = <<>>
    /\ token = <<>>
    /\ order = NoOrder
    /\ peerFrame = <<>>
    /\ peer = <<>>
    /\ peerEof = FALSE
    /\ hdr = <<>>
    /\ body = <<>>
    /\ result = "none"
    /\ err = "none"

\* The socket is closed (the with block is left) for the reason e.
Close(e) ==
    /\ pc' = "closed"
    /\ state' = "Closed"
    /\ err' = e

\* The sizes sock.recv(n) can return: part of what has arrived, nothing once the
\* peer has closed; it blocks while nothing has arrived.
RecvSizes(n) ==
    IF peer = <<>> THEN (IF peerEof THEN {0} ELSE {})
    ELSE 1..Min(n, Len(peer))

\* sock.connect succeeds.
Connect ==
    /\ pc = "connect"
    /\ pc' = (IF script = "auth" THEN "send_login" ELSE "send_order")
    /\ UNCHANGED << script, state, wire, sentLog, token, order, peerFrame, peer, peerEof,
                    hdr, body, result, err >>
    /\ UNCHANGED << sessVars, codecVars, otherVars >>

\* sock.connect raises ConnectionRefusedError.
ConnectRefused ==
    /\ pc = "connect"
    /\ Close("refused")
    /\ UNCHANGED << script, wire, sentLog, token, order, peerFrame, peer, peerEof,
                    hdr, body, result >>
    /\ UNCHANGED << sessVars, codecVars, otherVars >>

(***************************************************************************)
(* test_auth.py                                                            *)
(***************************************************************************)
\* send_login_request returns True.
SendLoginOk ==
    /\ pc = "send_login"
    /\ wire' = wire \o LoginRequestMessage(token)
    /\ sentLog' = Append(sentLog, [ kind |-> "LoginRequest", state |-> state,
                                    bytes |-> LoginRequestMessage(token) ])
    /\ state' = "Authenticating"
    /\ pc' = "recv_header"
    /\ UNCHANGED << script, token, order, peerFrame, peer, peerEof, hdr, body, result, err >>
    /\ UNCHANGED << sessVars, codecVars, otherVars >>

\* sendall raises socket.error after k bytes: send_login_request returns False
\* and main returns.
SendLoginFail ==
    /\ pc = "send_login"
    /\ \E k \in 0..(Len(LoginRequestMessage(token)) - 1) :
          wire' = wire \o Take(LoginRequestMessage(token), k)
    /\ Close("socket")
    /\ UNCHANGED << script, sentLog, token, order, peerFrame, peer, peerEof, hdr, body, result >>
    /\ UNCHANGED << sessVars, codecVars, otherVars >>

\* Mutant: the success flag is taken from the message_type field.
SuccessFlag_TypeByte(h) == h[5]

\* The success_flag and message_len fields of an unpacked response header.
SuccessFlag(h) == h[6]
MessageLen(h) == UnpackU32(SubSeq(h, 7, 10))

\* main after receive_login_response has returned ok.
LoginReturns(ok) ==
    /\ result' = (IF ok THEN "true" ELSE "false")
    /\ IF ok
         THEN /\ pc' = "authenticated"
              /\ state' = "Authenticated"
              /\ err' = err
         ELSE Close("auth_failed")

\* receive_login_response: the header recv and unpack.
RecvLoginHeader ==
    /\ pc = "recv_header"
    /\ \E k \in RecvSizes(LOGIN_RESPONSE_HEADER_SIZE) :
          /\ hdr' = Take(peer, k)
          /\ peer' = Drop(peer, k)
          /\ IF k = 0
               THEN /\ result' = "false"
                    /\ Close("eof_header")
               ELSE IF k # LOGIN_RESPONSE_HEADER_SIZE
               THEN /\ result' = "false"
                    /\ Close("struct")
               ELSE IF MessageLen(hdr') > 0
               THEN /\ pc' = "recv_body"
                    /\ UNCHANGED << state, result, err >>
               ELSE LoginReturns(SuccessFlag(hdr') # 0)
    /\ UNCHANGED << script, wire, sentLog, token, order, peerFrame, peerEof, body >>
    /\ UNCHANGED << sessVars, codecVars, otherVars >>

\* receive_login_response: the body recv and body_data.decode('utf-8'), whose
\* UnicodeDecodeError no except clause catches.
RecvLoginBody ==
    /\ pc = "recv_body"
    /\ \E k \in RecvSizes(MessageLen(hdr)) :
          /\ body' = Take(peer, k)
          /\ peer' = Drop(peer, k)
          /\ IF k = 0
               THEN /\ result' = "false"
                    /\ Close("eof_body")
               ELSE IF ~Utf8Valid(body')
               THEN /\ result' = "raised"
                    /\ Close("unicode")
               ELSE LoginReturns(SuccessFlag(hdr) # 0)
    /\ UNCHANGED << script, wire, sentLog, token, order, peerFrame, peerEof, hdr >>
    /\ UNCHANGED << sessVars, codecVars, otherVars >>

\* receive_login_response: a recv raises socket.error.
RecvLoginError ==
    /\ pc \in { "recv_header", "recv_body" }
    /\ result' = "false"
    /\ Close("socket")
    /\ UNCHANGED << script, wire, sentLog, token, order, peerFrame, peer, peerEof, hdr, body >>
    /\ UNCHANGED << sessVars, codecVars, otherVars >>

\* main: the sleep ends and the with block closes the socket.
AuthFinish ==
    /\ pc = "authenticated"
    /\ Close(err)
    /\ UNCHANGED << script, wire, sentLog, token, order, peerFrame, peer, peerEof,
                    hdr, body, result >>
    /\ UNCHANGED << sessVars, codecVars, otherVars >>

(***************************************************************************)
(* test_client.py                                                          *)
(***************************************************************************)
\* s.sendall(full_message) returns.
SendOrderOk ==
    /\ pc = "send_order"
    /\ wire' = wire \o FullMessage(order)
    /\ sentLog' = Append(sentLog, [ kind |-> "SubmitOrder", state |-> state,
                                    bytes |-> FullMessage(order) ])
    /\ pc' = "recv_len"
    /\ UNCHANGED << script, state, token, order, peerFrame, peer, peerEof, hdr, body,
                    result, err >>
    /\ UNCHANGED << sessVars, codecVars, otherVars >>

\* s.sendall raises after k bytes.
SendOrderFail ==
    /\ pc = "send_order"
    /\ \E k \in 0..(Len(FullMessage(order)) - 1) :
          wire' = wire \o Take(FullMessage(order), k)
    /\ Close("socket")
    /\ UNCHANGED << script, sentLog, token, order, peerFrame, peer, peerEof, hdr, body, result >>
    /\ UNCHANGED << sessVars, codecVars, otherVars >>

\* execute_trade: resp_header_data = s.recv(4) and its unpack.
RecvOrderLen ==
    /\ pc = "recv_len"
    /\ \E k \in RecvSizes(4) :
          /\ hdr' = Take(peer, k)
          /\ peer' = Drop(peer, k)
          /\ IF k = 0 THEN Close("eof_header")
               ELSE IF k # 4 THEN Close("struct")
               ELSE /\ pc' = "recv_data"
                    /\ UNCHANGED << state, err >>
    /\ UNCHANGED << script, wire, sentLog, token, order, peerFrame, peerEof, body, result >>
    /\ UNCHANGED << sessVars, codecVars, otherVars >>

\* execute_trade: response_data = s.recv(resp_len - 4).
RecvOrderData ==
    /\ pc = "recv_data"
    /\ LET n == UnpackU32(hdr) - 4
       IN  IF n < 0
             THEN /\ Close("value")
                  /\ UNCHANGED << peer, body >>
             ELSE IF n = 0
             THEN /\ Close("none")
                  /\ UNCHANGED << peer, body >>
             ELSE \E k \in RecvSizes(n) :
                     /\ body' = Take(peer, k)
                     /\ peer' = Drop(peer, k)
                     /\ Close("none")
    /\ UNCHANGED << script, wire, sentLog, token, order, peerFrame, peerEof, hdr, result >>
    /\ UNCHANGED << sessVars, codecVars, otherVars >>

\* execute_trade: a recv raises.
RecvOrderError ==
    /\ pc \in { "recv_len", "recv_data" }
    /\ Close("socket")
    /\ UNCHANGED << script, wire, sentLog, token, order, peerFrame, peer, peerEof,
                    hdr, body, result >>
    /\ UNCHANGED << sessVars, codecVars, otherVars >>

Next ==
    \/ Connect
    \/ ConnectRefused
    \/ SendLoginOk
    \/ SendLoginFail
    \/ RecvLoginHeader
    \/ RecvLoginBody
    \/ RecvLoginError
    \/ AuthFinish
    \/ SendOrderOk
    \/ SendOrderFail
    \/ RecvOrderLen
    \/ RecvOrderData
    \/ RecvOrderError

Spec == Init /\ [][Next]_vars

(***************************************************************************)
(* Properties of the client connection.                                    *)
(***************************************************************************)
\* Whether sentLog holds a message of kind k before position i.
SentBefore(k, i) == \E j \in 1..(i - 1) : sentLog[j].kind = k
LoginRequestSent == SentBefore("LoginRequest", Len(sentLog) + 1)

\* Every byte the peer has sent on this connection: read or still to be read.
Arrived == hdr \o body \o peer

\* C1 (as claimed): every SubmitOrder byte on the wire was written in state
\* Authenticated, after a sent LoginRequest and a received LoginResponse with
\* success=true.
C1_StateGating ==
    /\ \A i \in 1..Len(sentLog) :
          sentLog[i].kind = "SubmitOrder" =>
             /\ sentLog[i].state = "Authenticated"
             /\ SentBefore("LoginRequest", i)
             /\ result = "true"
    /\ (script = "order" /\ wire # <<>>) => (LoginRequestSent /\ result = "true")

\* What the client has read is a LoginResponse with success=true: a whole
\* header of type LOGIN_RESPONSE whose total_length covers the header and the
\* declared message, a success byte that is not 0, and the whole message.
ReceivedLoginSuccess(h, b) ==
    /\ Len(h) = LOGIN_RESPONSE_HEADER_SIZE
    /\ h[5] = LOGIN_RESPONSE
    /\ UnpackU32(Take(h, 4)) = LOGIN_RESPONSE_HEADER_SIZE + MessageLen(h)
    /\ SuccessFlag(h) # 0
    /\ Len(b) = MessageLen(h)

\* C2 (as claimed): the session starts Unauthenticated; it becomes
\* Authenticating exactly in the step that writes a whole LoginRequest; from
\* Authenticating it becomes Authenticated only when a LoginResponse with
\* success=true has been received, and Closed once a response with success
\* byte 0 has been received; it is never Authenticated without a sent
\* LoginRequest, and nothing is read from the peer before the LoginRequest was
\* sent in full.
C2_LoginTransitions ==
    /\ state = "Unauthenticated"
    /\ [](/\ state = "Authenticated" =>
               /\ LoginRequestSent
               /\ wire = LoginRequestMessage(token)
               /\ ReceivedLoginSuccess(hdr, body)
          /\ (script = "auth" /\ (hdr # <<>> \/ body # <<>> \/ result # "none")) =>
               LoginRequestSent
          /\ (script = "auth" /\ Len(hdr) = LOGIN_RESPONSE_HEADER_SIZE
                /\ SuccessFlag(hdr) = 0 /\ pc # "recv_body") => state = "Closed"
          /\ state = "Authenticating" <=> pc \in { "recv_header", "recv_body" })
    /\ [][ /\ (state = "Unauthenticated" /\ state' # state) =>
                state' \in { "Authenticating", "Closed" }
           /\ (state = "Unauthenticated" /\ state' = "Authenticating") <=>
                (/\ Len(sentLog') = Len(sentLog) + 1
                 /\ sentLog'[Len(sentLog')].kind = "LoginRequest"
                 /\ wire' = wire \o sentLog'[Len(sentLog')].bytes)
           /\ (state = "Authenticating" /\ state' # state) =>
                state' \in { "Authenticated", "Closed" }
           /\ (state # "Authenticated" /\ state' = "Authenticated") =>
                /\ state = "Authenticating"
                /\ ReceivedLoginSuccess(hdr', body')
         ]_vars

\* C5 (as claimed): when the whole of one valid LoginResponse arrives, in
\* whatever pieces, and no transport error occurs, the receive path ends with no
\* decode error and with exactly the frame that was sent.
C5_PartialReadRobust ==
    ( /\ script = "auth"
      /\ peerFrame \in ValidLoginResponses
      /\ Arrived = peerFrame
      /\ err # "socket"
      /\ result # "none" ) =>
        /\ err # "struct"
        /\ hdr \o body = peerFrame
        /\ (result = "true") <=> (SuccessFlag(peerFrame) # 0)

\* C7 (as claimed): a response accepted as a successful login has a total_length
\* equal to the header size plus its declared message length.
C7_DeclaredLength ==
    result = "true" =>
        UnpackU32(Take(hdr, 4)) = LOGIN_RESPONSE_HEADER_SIZE + MessageLen(hdr)

\* Order data with empty strings, for the encoder alone.
EdgeOrders ==
    [ order_id : { <<>>, OrderId(1000) }, user_id : { <<>>, UserId(100) },
      symbol : { <<>> } \cup SYMBOLS, side : {0}, order_type : {1}, quantity : {100},
      price : {600}, timestamp_ms : { <<0, 395, 53221, 26624>> } ]

\* C8: the first four bytes of every message written, read big-endian, are the
\* byte length of the whole message (LoginRequest for every token, the empty one
\* included, and SubmitOrder for every order); and so they are for the
\* SubmitOrder encoding of order data with empty strings, which execute_trade
\* itself never generates.
C8_LengthPrefix ==
    /\ \A i \in 1..Len(sentLog) :
          /\ Len(sentLog[i].bytes) >= 4
          /\ UnpackU32(Take(sentLog[i].bytes, 4)) = Len(sentLog[i].bytes)
    /\ pc = "connect" =>
          \A o \in EdgeOrders : UnpackU32(Take(FullMessage(o), 4)) = Len(FullMessage(o))

\* C8's case: a SubmitOrder and, on the other connection kind, a LoginRequest
\* with a token, written in full.
C8_Witness ==
    \E i \in 1..Len(sentLog) :
        \/ sentLog[i].kind = "SubmitOrder" /\ Len(sentLog[i].bytes) = 72
        \/ sentLog[i].kind = "LoginRequest" /\ Len(sentLog[i].bytes) = 11

\* C9 (as claimed): the byte at offset 4 of every message written is the
\* discriminant MessageType lists for its variant, no other variant is written
\* with the discriminant of LoginRequest, and a response accepted as a login
\* response carries the discriminant of LoginResponse.
C9_SingleByteDispatch ==
    /\ \A i \in 1..Len(sentLog) :
          /\ sentLog[i].bytes[5] = MessageType[sentLog[i].kind]
          /\ sentLog[i].kind # "LoginRequest" => sentLog[i].bytes[5] # MessageType.LoginRequest
    /\ result = "true" => hdr[5] = MessageType.LoginResponse

\* The layout of a SubmitOrder b of order o whose quantity field is w bytes wide.
SubmitOrderLayout(b, o, w) ==
    LET fixed == 19 + w + 16
    IN  /\ Len(b) = fixed + Len(o.order_id) + Len(o.user_id) + Len(o.symbol)
        /\ UnpackU32(SubSeq(b, 1, 4)) = Len(b)
        /\ b[5] = MESSAGE_TYPE_SUBMIT_ORDER
        /\ UnpackU32(SubSeq(b, 6, 9)) = Len(o.order_id)
        /\ UnpackU32(SubSeq(b, 10, 13)) = Len(o.user_id)
        /\ UnpackU32(SubSeq(b, 14, 17)) = Len(o.symbol)
        /\ b[18] = o.side
        /\ b[19] = o.order_type
        /\ UnpackU32(SubSeq(b, 20 + w - 4, 20 + w - 1)) = o.quantity
        /\ \A j \in 20..(20 + w - 5) : b[j] = 0
        /\ SubSeq(b, 20 + w, 20 + w + 7) = PackDouble(o.price)
        /\ SubSeq(b, 20 + w + 8, fixed) = PackU64(o.timestamp_ms)
        /\ SubSeq(b, fixed + 1, Len(b)) = o.order_id \o o.user_id \o o.symbol

\* C10 (as claimed): quantity is a u32 and the fixed part is 39 bytes, the
\* length prefix included.
C10_Layout39 ==
    \A i \in 1..Len(sentLog) :
        sentLog[i].kind = "SubmitOrder" => SubmitOrderLayout(sentLog[i].bytes, order, 4)

\* C10 (amended): total_len:u32, type:u8, order_id_len:u32, user_id_len:u32,
\* symbol_len:u32, side:u8, order_type:u8, quantity:u64 (8 bytes), price (8
\* bytes), timestamp_ms:u64, then order_id, user_id and symbol, each of its
\* declared length: a fixed part of 43 bytes, the length prefix included.
C10_Layout43 ==
    \A i \in 1..Len(sentLog) :
        sentLog[i].kind = "SubmitOrder" => SubmitOrderLayout(sentLog[i].bytes, order, 8)

\* C10's case: a SubmitOrder of quantity 100 at 150.25 written in full.
C10_Witness ==
    /\ sentLog # <<>>
    /\ sentLog[1].kind = "SubmitOrder"
    /\ order.quantity = 100
    /\ order.price = 601

(***************************************************************************)
(* Session state machine.  The session core is not among the client        *)
(* scripts; it is modelled from its specification: the states, the legal   *)
(* transitions, the legality gate and the heartbeat timeout.  An operation *)
(* the specification gives no outcome for (a LoginRequest sent or a        *)
(* response received in a state it is not expected in) is not modelled.    *)
(***************************************************************************)
\* The configured heartbeat timeout N, in milliseconds of the clock.
HeartbeatTimeoutMs == 2

SessionTokens == { <<97>>, <<98>> }

\* Mutant: the Closed state is never recognised.
IsClosed_Never == FALSE

\* The session has been closed.
IsClosed == sState = "Closed"

\* Mutant: an acknowledgment is not taken into account.
HeartbeatUnacked_AckIgnored == lastHbSent # None

\* A heartbeat was sent and none was acknowledged since.
HeartbeatUnacked ==
    /\ lastHbSent # None
    /\ (lastHbAck = None \/ lastHbAck < lastHbSent)

\* The liveness timeout: more than N milliseconds since the last heartbeat,
\* and no acknowledgment of it.
Expired ==
    /\ sState # "Closed"
    /\ HeartbeatUnacked
    /\ now - lastHbSent > HeartbeatTimeoutMs

\* A fatal error: the session becomes Closed and the owner is told to close.
SessionClose(reason) ==
    /\ sState' = "Closed"
    /\ closeNotes' = closeNotes + 1
    /\ closeReason' = reason
    /\ sErr' = reason

\* What every operation does first: it fails with SessionClosed on a closed
\* session, and closes a session whose heartbeat has timed out.  TRUE when one
\* of the two happened.
Refused ==
    \/ /\ IsClosed
       /\ sErr' = "SessionClosed"
       /\ UNCHANGED << sState, sToken, lastHbSent, lastHbAck, closeNotes, closeReason, sOut >>
    \/ /\ ~IsClosed
       /\ Expired
       /\ SessionClose("HeartbeatTimeout")
       /\ UNCHANGED << sToken, lastHbSent, lastHbAck, sOut >>

Proceeds == ~IsClosed /\ ~Expired

\* Unauthenticated --send LoginRequest--> Authenticating.
SendLoginRequest ==
    /\ sState \in { "Unauthenticated", "Closed" }
    /\ sLast' = [ op |-> "send", kind |-> "LoginRequest" ]
    /\ \/ Refused
       \/ /\ Proceeds
          /\ Len(sOut) < MaxSends
          /\ \E t \in SessionTokens : sToken' = t
          /\ sState' = "Authenticating"
          /\ sOut' = Append(sOut, "LoginRequest")
          /\ sErr' = "ok"
          /\ UNCHANGED << lastHbSent, lastHbAck, closeNotes, closeReason >>
    /\ UNCHANGED << now, sRejected, connVars, codecVars, otherVars >>

\* Mutant: a SubmitOrder rejected by the legality gate closes the session.
SendSubmitOrder_RejectCloses ==
    /\ sLast' = [ op |-> "send", kind |-> "SubmitOrder" ]
    /\ \/ /\ Refused
          /\ UNCHANGED sRejected
       \/ /\ Proceeds
          /\ sState = "Authenticated"
          /\ Len(sOut) < MaxSends
          /\ sOut' = Append(sOut, "SubmitOrder")
          /\ sErr' = "ok"
          /\ UNCHANGED << sState, sToken, lastHbSent, lastHbAck, closeNotes, closeReason,
                          sRejected >>
       \/ /\ Proceeds
          /\ sState # "Authenticated"
          /\ SessionClose("SessionNotAuthenticated")
          /\ sRejected' = TRUE
          /\ UNCHANGED << sToken, lastHbSent, lastHbAck, sOut >>
    /\ UNCHANGED << now, connVars, codecVars, otherVars >>

\* The legality gate: SubmitOrder is transmitted only while Authenticated.
SendSubmitOrder ==
    /\ sLast' = [ op |-> "send", kind |-> "SubmitOrder" ]
    /\ \/ /\ Refused
          /\ UNCHANGED sRejected
       \/ /\ Proceeds
          /\ sState = "Authenticated"
          /\ Len(sOut) < MaxSends
          /\ sOut' = Append(sOut, "SubmitOrder")
          /\ sErr' = "ok"
          /\ UNCHANGED << sState, sToken, lastHbSent, lastHbAck, closeNotes, closeReason,
                          sRejected >>
       \/ /\ Proceeds
          /\ sState # "Authenticated"
          /\ sErr' = "SessionNotAuthenticated"
          /\ sRejected' = TRUE
          /\ UNCHANGED << sState, sToken, lastHbSent, lastHbAck, closeNotes, closeReason, sOut >>
    /\ UNCHANGED << now, connVars, codecVars, otherVars >>

\* Mutant: sending a Heartbeat also forgets the last acknowledgement.
SendHeartbeat_ForgetsAck ==
    /\ sState \in { "Authenticated", "Closed" }
    /\ sLast' = [ op |-> "send", kind |-> "Heartbeat" ]
    /\ \/ Refused
       \/ /\ Proceeds
          /\ Len(sOut) < MaxSends
          /\ lastHbSent' = now
          /\ lastHbAck' = None
          /\ sOut' = Append(sOut, "Heartbeat")
          /\ sErr' = "ok"
          /\ UNCHANGED << sState, sToken, closeNotes, closeReason >>
    /\ UNCHANGED << now, sRejected, connVars, codecVars, otherVars >>

\* Authenticated --send Heartbeat--> Authenticated, recording last_heartbeat_sent.
SendHeartbeat ==
    /\ sState \in { "Authenticated", "Closed" }
    /\ sLast' = [ op |-> "send", kind |-> "Heartbeat" ]
    /\ \/ Refused
       \/ /\ Proceeds
          /\ Len(sOut) < MaxSends
          /\ lastHbSent' = now
          /\ sOut' = Append(sOut, "Heartbeat")
          /\ sErr' = "ok"
          /\ UNCHANGED << sState, sToken, lastHbAck, closeNotes, closeReason >>
    /\ UNCHANGED << now, sRejected, connVars, codecVars, otherVars >>

\* Authenticating --receive LoginResponse{success}--> Authenticated or Closed.
RecvLoginResponse ==
    /\ sState \in { "Authenticating", "Closed" }
    /\ sLast' = [ op |-> "recv", kind |-> "LoginResponse" ]
    /\ \/ Refused
       \/ /\ Proceeds
          /\ \E success \in BOOLEAN :
                IF success
                  THEN /\ sState' = "Authenticated"
                       /\ sErr' = "ok"
                       /\ UNCHANGED << closeNotes, closeReason >>
                  ELSE SessionClose("LoginFailed")
          /\ UNCHANGED << sToken, lastHbSent, lastHbAck, sOut >>
    /\ UNCHANGED << now, sRejected, connVars, codecVars, otherVars >>

\* Authenticated --receive OrderResponse--> Authenticated.
RecvOrderResponse ==
    /\ sState \in { "Authenticated", "Closed" }
    /\ sLast' = [ op |-> "recv", kind |-> "OrderResponse" ]
    /\ \/ Refused
       \/ /\ Proceeds
          /\ sErr' = "ok"
          /\ UNCHANGED << sState, sToken, lastHbSent, lastHbAck, closeNotes, closeReason, sOut >>
    /\ UNCHANGED << now, sRejected, connVars, codecVars, otherVars >>

\* Authenticated --receive SubmitOrder--> Authenticated.
RecvSubmitOrder ==
    /\ sState \in { "Authenticated", "Closed" }
    /\ sLast' = [ op |-> "recv", kind |-> "SubmitOrder" ]
    /\ \/ Refused
       \/ /\ Proceeds
          /\ sErr' = "ok"
          /\ UNCHANGED << sState, sToken, lastHbSent, lastHbAck, closeNotes, closeReason, sOut >>
    /\ UNCHANGED << now, sRejected, connVars, codecVars, otherVars >>

\* Authenticated --send OrderResponse--> Authenticated.
SendOrderResponse ==
    /\ sState \in { "Authenticated", "Closed" }
    /\ sLast' = [ op |-> "send", kind |-> "OrderResponse" ]
    /\ \/ Refused
       \/ /\ Proceeds
          /\ Len(sOut) < MaxSends
          /\ sOut' = Append(sOut, "OrderResponse")
          /\ sErr' = "ok"
          /\ UNCHANGED << sState, sToken, lastHbSent, lastHbAck, closeNotes, closeReason >>
    /\ UNCHANGED << now, sRejected, connVars, codecVars, otherVars >>

\* Authenticated --receive HeartbeatAck--> Authenticated, recording
\* last_heartbeat_ack.
RecvHeartbeatAck ==
    /\ sState \in { "Authenticated", "Closed" }
    /\ sLast' = [ op |-> "recv", kind |-> "HeartbeatAck" ]
    /\ \/ Refused
       \/ /\ Proceeds
          /\ lastHbAck' = now
          /\ sErr' = "ok"
          /\ UNCHANGED << sState, sToken, lastHbSent, closeNotes, closeReason, sOut >>
    /\ UNCHANGED << now, sRejected, connVars, codecVars, otherVars >>

\* The owner asks whether the heartbeat has timed out.
CheckTimeout ==
    /\ sLast' = [ op |-> "check", kind |-> "none" ]
    /\ \/ Refused
       \/ /\ Proceeds
          /\ sErr' = "ok"
          /\ UNCHANGED << sState, sToken, lastHbSent, lastHbAck, closeNotes, closeReason, sOut >>
    /\ UNCHANGED << now, sRejected, connVars, codecVars, otherVars >>

\* Any state --transport error or decode failure--> Closed.
FatalError ==
    /\ \E kind \in { "TransportError", "DecodeFailure" } :
          /\ sLast' = [ op |-> "recv", kind |-> kind ]
          /\ \/ Refused
             \/ /\ Proceeds
                /\ SessionClose(kind)
                /\ UNCHANGED << sToken, lastHbSent, lastHbAck, sOut >>
    /\ UNCHANGED << now, sRejected, connVars, codecVars, otherVars >>

\* The clock advances by one millisecond.
Tick ==
    /\ now < MaxClock
    /\ now' = now + 1
    /\ UNCHANGED << sState, sToken, lastHbSent, lastHbAck, closeNotes, closeReason, sOut,
                    sErr, sLast, sRejected, connVars, codecVars, otherVars >>

SessionSpecInit == ConnIdle /\ SessionInit /\ CodecIdle /\ OthersIdle

SessionNext ==
    \/ SendLoginRequest
    \/ SendSubmitOrder
    \/ SendHeartbeat
    \/ RecvLoginResponse
    \/ RecvOrderResponse
    \/ RecvSubmitOrder
    \/ SendOrderResponse
    \/ RecvHeartbeatAck
    \/ CheckTimeout
    \/ FatalError
    \/ Tick

\* The owner keeps asking for the timeout.
SessionSpec == SessionSpecInit /\ [][SessionNext]_vars /\ WF_vars(CheckTimeout)

\* C3: once the session is Closed it stays Closed, nothing more is handed to the
\* transport, no field of the session changes, the owner is not notified again,
\* and every operation attempted ends with SessionClosed.
C3_ClosedAbsorbing ==
    [][ sState = "Closed" =>
          /\ sState' = "Closed"
          /\ sOut' = sOut
          /\ UNCHANGED << sToken, lastHbSent, lastHbAck, closeNotes, closeReason >>
          /\ (sLast' # sLast \/ sErr' # sErr) => sErr' = "SessionClosed"
      ]_vars

\* C3's case: a SubmitOrder attempted on a closed session that had transmitted.
C3_Witness ==
    /\ sState = "Closed"
    /\ sErr = "SessionClosed"
    /\ sLast = [ op |-> "send", kind |-> "SubmitOrder" ]
    /\ sOut # <<>>

\* C4: the close is notified at most once, and exactly when the session is
\* Closed; a close for a heartbeat timeout happens only with a heartbeat sent
\* more than N milliseconds ago and not acknowledged since (so an
\* acknowledgment within N milliseconds prevents it); and once N milliseconds
\* have passed without one, the session is eventually Closed.
C4_HeartbeatTimeout ==
    /\ [](/\ closeNotes <= 1
          /\ closeNotes = 1 <=> sState = "Closed")
    /\ [](closeReason = "HeartbeatTimeout" =>
             /\ lastHbSent # None
             /\ (lastHbAck = None \/ lastHbAck < lastHbSent)
             /\ now - lastHbSent > HeartbeatTimeoutMs)
    /\ [][ closeNotes' # closeNotes => (sState # "Closed" /\ sState' = "Closed") ]_vars
    /\ (Expired ~> sState = "Closed")

\* C4's case: a session closed by the heartbeat timeout, asked again for the
\* timeout after further clock ticks.
C4_Witness ==
    /\ closeReason = "HeartbeatTimeout"
    /\ closeNotes = 1
    /\ sErr = "SessionClosed"
    /\ sLast.op = "check"
    /\ now >= lastHbSent + HeartbeatTimeoutMs + 2

\* The step is an operation on the session, not the passing of time.
IsOperation == now' = now

\* C15: from Authenticated every step leaves the session Authenticated or moves
\* it to Closed, the latter only by heartbeat timeout, transport error or
\* decode failure; while it stays Authenticated the token is kept, sending a
\* Heartbeat changes last_heartbeat_sent alone, receiving a HeartbeatAck
\* changes last_heartbeat_ack alone, and sending or receiving a SubmitOrder or
\* an OrderResponse changes neither.
C15_AuthenticatedStable ==
    [][ (sState = "Authenticated" /\ IsOperation) =>
          /\ sState' \in { "Authenticated", "Closed" }
          /\ sState' = "Closed" =>
                 /\ closeReason' \in { "HeartbeatTimeout", "TransportError", "DecodeFailure" }
                 /\ closeNotes' = closeNotes + 1
          /\ sState' = "Authenticated" =>
                 /\ UNCHANGED << sToken, closeNotes, closeReason >>
                 /\ sErr' = "ok"
                 /\ sLast'.kind \in { "SubmitOrder", "OrderResponse", "none" } =>
                        UNCHANGED << lastHbSent, lastHbAck >>
                 /\ sLast'.kind = "Heartbeat" =>
                        lastHbSent' = now /\ UNCHANGED lastHbAck
                 /\ sLast'.kind = "HeartbeatAck" =>
                        lastHbAck' = now /\ UNCHANGED lastHbSent
                 /\ sLast'.kind \in { "SubmitOrder", "OrderResponse", "Heartbeat",
                                      "HeartbeatAck", "none" } ]_vars

\* C15's case: an Authenticated session that has sent a Heartbeat, received a
\* HeartbeatAck and then sent a SubmitOrder.
C15_Witness ==
    /\ sState = "Authenticated"
    /\ lastHbSent # None
    /\ lastHbAck # None
    /\ sLast = [ op |-> "send", kind |-> "SubmitOrder" ]
    /\ sErr = "ok"

\* C16: a SubmitOrder rejected with SessionNotAuthenticated changes neither the
\* state, the token, the heartbeat timestamps nor the inbound buffer, hands
\* nothing to the transport and does not ask the owner to close; and a
\* SubmitOrder attempted on a live Authenticated session, after a rejection
\* too, is accepted and handed to the transport.
C16_RejectedRecoverable ==
    [][ (IsOperation /\ sLast' = [ op |-> "send", kind |-> "SubmitOrder" ]) =>
          /\ sErr' = "SessionNotAuthenticated" =>
                 /\ sState # "Authenticated"
                 /\ UNCHANGED << sState, sToken, lastHbSent, lastHbAck, closeNotes,
                                 closeReason, sOut, cBuf >>
          /\ (sState = "Authenticated" /\ ~Expired) =>
                 /\ sErr' = "ok"
                 /\ sOut' = Append(sOut, "SubmitOrder")
                 /\ UNCHANGED << sState, sToken, lastHbSent, lastHbAck, closeNotes,
                                 closeReason, cBuf >> ]_vars

\* C16's case: a SubmitOrder was rejected, the session then became
\* Authenticated, and the SubmitOrder attempted again was transmitted.
C16_Witness ==
    /\ sRejected
    /\ sState = "Authenticated"
    /\ sLast = [ op |-> "send", kind |-> "SubmitOrder" ]
    /\ sErr = "ok"
    /\ sOut # <<>>
    /\ sOut[Len(sOut)] = "SubmitOrder"

(***************************************************************************)
(* Frame codec.  The codec core is not among the client scripts; it is     *)
(* modelled from its specification: a byte cursor over the inbound buffer  *)
(* and try_extract_frame, which delimits frames by their length prefix.    *)
(***************************************************************************)
\* The configured maximum of total_length.
MaxFrameLen == 16

\* A header-only frame (Heartbeat, HeartbeatAck): total_len:u32, type:u8.
HeaderOnlyFrame(type) == PackU32(5) \o PackU8(type)

ValidFrames ==
    { LoginRequestMessage(<<97>>), HeaderOnlyFrame(HEARTBEAT), HeaderOnlyFrame(HEARTBEAT_ACK) }

\* Frames whose total_length is below 4, or above the configured maximum.
CorruptFrames == { PackU32(3), PackU32(MaxFrameLen + 1) \o PackU8(LOGIN_REQUEST) }

CodecFrames == ValidFrames \cup CorruptFrames

\* Every sequence over S of length at most n.
RECURSIVE SeqsUpTo(_, _)
SeqsUpTo(S, n) ==
    IF n = 0 THEN { <<>> }
    ELSE SeqsUpTo(S, n - 1)
           \cup { Append(q, x) : q \in { r \in SeqsUpTo(S, n - 1) : Len(r) = n - 1 }, x \in S }

\* The bytes of a sequence of frames, in order.
RECURSIVE Flatten(_)
Flatten(fs) == IF fs = <<>> THEN <<>> ELSE Head(fs) \o Flatten(Tail(fs))

\* Mutant: the cursor advances by the payload length only.
TryExtractFrame_PayloadAdvance(buf) ==
    IF Len(buf) < 4
      THEN [ res |-> "NeedMoreData", frame |-> <<>>, rest |-> buf ]
      ELSE LET total == UnpackU32(Take(buf, 4))
           IN  IF total < 4 THEN [ res |-> "FrameTooSmall", frame |-> <<>>, rest |-> buf ]
               ELSE IF total > MaxFrameLen
                 THEN [ res |-> "FrameTooLarge", frame |-> <<>>, rest |-> buf ]
               ELSE IF Len(buf) < total
                 THEN [ res |-> "NeedMoreData", frame |-> <<>>, rest |-> buf ]
               ELSE [ res |-> "Frame", frame |-> Take(buf, total), rest |-> Drop(buf, total - 4) ]

\* try_extract_frame on the buffered bytes buf: the outcome, the frame (prefix
\* included) and the bytes left in the buffer.
TryExtractFrame(buf) ==
    IF Len(buf) < 4
      THEN [ res |-> "NeedMoreData", frame |-> <<>>, rest |-> buf ]
      ELSE LET total == UnpackU32(Take(buf, 4))
           IN  IF total < 4 THEN [ res |-> "FrameTooSmall", frame |-> <<>>, rest |-> buf ]
               ELSE IF total > MaxFrameLen
                 THEN [ res |-> "FrameTooLarge", frame |-> <<>>, rest |-> buf ]
               ELSE IF Len(buf) < total
                 THEN [ res |-> "NeedMoreData", frame |-> <<>>, rest |-> buf ]
               ELSE [ res |-> "Frame", frame |-> Take(buf, total), rest |-> Drop(buf, total) ]

FatalFrameErrors == { "FrameTooSmall", "FrameTooLarge" }

CodecInit ==
    /\ ConnIdle
    /\ SessionInit
    /\ OthersIdle
    /\ cSent \in SeqsUpTo(CodecFrames, MaxFrames)
    /\ cPending = Flatten(cSent)
    /\ cBuf = <<>>
    /\ cOut = <<>>
    /\ cLast = "none"
    /\ cSplit = FALSE

\* The caller reads k bytes from the transport and appends them to the buffer.
CodecRead ==
    /\ cLast \notin FatalFrameErrors
    /\ \E k \in 1..Len(cPending) :
          /\ cBuf' = cBuf \o Take(cPending, k)
          /\ cPending' = Drop(cPending, k)
    /\ cLast' = "none"
    /\ UNCHANGED << cSent, cOut, cSplit, connVars, sessVars, otherVars >>

\* The caller calls try_extract_frame.
CodecExtract ==
    /\ cLast \notin FatalFrameErrors
    /\ LET r == TryExtractFrame(cBuf)
       IN  /\ cLast' = r.res
           /\ cBuf' = r.rest
           /\ cOut' = (IF r.res = "Frame" THEN Append(cOut, r.frame) ELSE cOut)
           /\ cSplit' = (cSplit \/ (r.res = "NeedMoreData" /\ cBuf # <<>>))
    /\ UNCHANGED << cSent, cPending, connVars, sessVars, otherVars >>

CodecNext ==
    \/ CodecRead
    \/ CodecExtract

CodecSpec == CodecInit /\ [][CodecNext]_vars

StreamValid == \A i \in 1..Len(cSent) : cSent[i] \in ValidFrames

\* C6: for a stream of valid frames, in whatever pieces it is read, the frames
\* extracted are at every moment the first of the frames sent, in their order;
\* no byte is lost or duplicated; no extraction fails; and once every byte has
\* been read and extraction reports NeedMoreData, the frames extracted are
\* exactly the frames sent.
C6_StreamOrdering ==
    StreamValid =>
        /\ Len(cOut) <= Len(cSent)
        /\ cOut = Take(cSent, Len(cOut))
        /\ Flatten(cOut) \o cBuf \o cPending = Flatten(cSent)
        /\ cLast \notin FatalFrameErrors
        /\ (cPending = <<>> /\ cLast = "NeedMoreData") => (cOut = cSent /\ cBuf = <<>>)

\* C6's case: two different frames, one of them read in several pieces, both
\* extracted.
C6_Witness ==
    /\ StreamValid
    /\ Len(cSent) = 2
    /\ cSent[1] # cSent[2]
    /\ cOut = cSent
    /\ cSplit
    /\ cPending = <<>>
    /\ cLast = "NeedMoreData"

(***************************************************************************)
(* Message codec: decoding a frame into a typed message (spec section      *)
(* 4.3).  The registry is the MessageType enum; the schema of each type is *)
(* the layout the encoders above write.                                    *)
(***************************************************************************)
DecodeError(e) == [ kind |-> "Error", error |-> e ]

\* The variant the registry lists for a discriminant, "none" when absent.
Registry(type) ==
    CASE type = MessageType.LoginRequest -> "LoginRequest"
      [] type = MessageType.LoginResponse -> "LoginResponse"
      [] type = MessageType.SubmitOrder -> "SubmitOrder"
      [] type = MessageType.OrderResponse -> "OrderResponse"
      [] type = MessageType.Heartbeat -> "Heartbeat"
      [] type = MessageType.HeartbeatAck -> "HeartbeatAck"
      [] OTHER -> "none"

\* The size of the fixed part of each variant's schema, prefix included.
SUBMIT_ORDER_FIXED_SIZE == 43
FRAME_HEADER_SIZE == 5

FixedSize(kind) ==
    CASE kind = "LoginRequest" -> LOGIN_REQUEST_HEADER_SIZE
      [] kind = "LoginResponse" -> LOGIN_RESPONSE_HEADER_SIZE
      [] kind = "SubmitOrder" -> SUBMIT_ORDER_FIXED_SIZE
      [] OTHER -> FRAME_HEADER_SIZE

\* 'Q' read back from eight bytes, as four 16-bit limbs.
UnpackU64(b) ==
    << b[1] * 256 + b[2], b[3] * 256 + b[4], b[5] * 256 + b[6], b[7] * 256 + b[8] >>

\* The Python int of a 64-bit word below 2^31.
IntOfU64(w) == w[3] * 65536 + w[4]

\* Step 5: the bytes the schema consumes against the length of the frame.
CheckConsumed(f, consumed, msg) ==
    IF consumed > Len(f) THEN DecodeError("TruncatedMessage")
    ELSE IF consumed < Len(f) THEN DecodeError("TrailingBytes")
    ELSE msg

\* Steps 3, 4 and 6 for each variant, the fixed fields being present.
DecodeLoginRequest(f) ==
    LET n == UnpackU32(SubSeq(f, 6, 9))
    IN  CheckConsumed(f, LOGIN_REQUEST_HEADER_SIZE + n,
            [ kind |-> "LoginRequest", token |-> SubSeq(f, 10, 9 + n) ])

DecodeLoginResponse(f) ==
    LET n == UnpackU32(SubSeq(f, 7, 10))
    IN  CheckConsumed(f, LOGIN_RESPONSE_HEADER_SIZE + n,
            [ kind |-> "LoginResponse", success |-> f[6] # 0,
              message |-> SubSeq(f, 11, 10 + n) ])

DecodeSubmitOrder(f) ==
    LET a == UnpackU32(SubSeq(f, 6, 9))
        b == UnpackU32(SubSeq(f, 10, 13))
        c == UnpackU32(SubSeq(f, 14, 17))
        at == SUBMIT_ORDER_FIXED_SIZE
    IN  CheckConsumed(f, at + a + b + c,
            [ kind |-> "SubmitOrder",
              order_id |-> SubSeq(f, at + 1, at + a),
              user_id |-> SubSeq(f, at + a + 1, at + a + b),
              symbol |-> SubSeq(f, at + a + b + 1, at + a + b + c),
              side |-> f[18], order_type |-> f[19],
              quantity |-> IntOfU64(UnpackU64(SubSeq(f, 20, 27))),
              price |-> SubSeq(f, 28, 35),
              timestamp_ms |-> UnpackU64(SubSeq(f, 36, 43)) ])

\* decode: steps 1 to 6 on a whole frame, length prefix included.
DecodeMessage(f) ==
    IF Len(f) < FRAME_HEADER_SIZE THEN DecodeError("TruncatedMessage")
    ELSE LET kind == Registry(f[5])
         IN  IF kind = "none" THEN DecodeError("UnknownMessageType")
             ELSE IF Len(f) < FixedSize(kind) THEN DecodeError("TruncatedMessage")
             ELSE CASE kind = "LoginRequest" -> DecodeLoginRequest(f)
                    [] kind = "LoginResponse" -> DecodeLoginResponse(f)
                    [] kind = "SubmitOrder" -> DecodeSubmitOrder(f)
                    [] kind = "OrderResponse" ->
                         [ kind |-> "OrderResponse", raw_payload |-> Drop(f, 4) ]
                    [] OTHER -> CheckConsumed(f, FRAME_HEADER_SIZE, [ kind |-> kind ])

\* The typed messages the clients hand to their encoders.
LoginRequestOf(t) == [ kind |-> "LoginRequest", token |-> t ]

\* C11: every LoginRequest written is total_len (u32, big-endian, 9 plus the
\* token's length), the type byte 1, token_len (u32, big-endian) and the token
\* bytes; for the token "abc" it is the 12 bytes 0,0,0,12, 1, 0,0,0,3, a,b,c;
\* and decoding what was written gives back the LoginRequest with that token.
C11_LoginRequestLayout ==
    \A i \in 1..Len(sentLog) :
        sentLog[i].kind = "LoginRequest" =>
            LET b == sentLog[i].bytes
            IN  /\ Len(b) = 9 + Len(token)
                /\ SubSeq(b, 1, 4) = PackU32(9 + Len(token))
                /\ b[5] = 1
                /\ SubSeq(b, 6, 9) = PackU32(Len(token))
                /\ SubSeq(b, 10, Len(b)) = token
                /\ DecodeMessage(b) = LoginRequestOf(token)
                /\ token = <<97, 98, 99>> =>
                       b = <<0, 0, 0, 12, 1, 0, 0, 0, 3, 97, 98, 99>>

\* C11's case: the login request for the token "abc" has been written.
C11_Witness ==
    /\ script = "auth"
    /\ token = <<97, 98, 99>>
    /\ Len(sentLog) = 1
    /\ sentLog[1].kind = "LoginRequest"

\* The typed SubmitOrder of execute_trade's order data; the price is kept as
\* its eight bytes.
SubmitOrderOf(o) ==
    [ kind |-> "SubmitOrder", order_id |-> o.order_id, user_id |-> o.user_id,
      symbol |-> o.symbol, side |-> o.side, order_type |-> o.order_type,
      quantity |-> o.quantity, price |-> PackDouble(o.price),
      timestamp_ms |-> o.timestamp_ms ]

\* The typed message of a well-formed login response.
LoginResponseOf(f) ==
    [ kind |-> "LoginResponse", success |-> SuccessFlag(f) # 0,
      message |-> Drop(f, LOGIN_RESPONSE_HEADER_SIZE) ]

\* C12: decoding what an encoder wrote gives back the message encoded: the
\* LoginRequest with its token, the SubmitOrder with every field (quantity and
\* the eight price bytes included), the LoginResponse with its flag and
\* message, and the header-only Heartbeat and HeartbeatAck.
C12_RoundTrip ==
    /\ \A i \in 1..Len(sentLog) :
           /\ sentLog[i].kind = "LoginRequest" =>
                  DecodeMessage(sentLog[i].bytes) = LoginRequestOf(token)
           /\ sentLog[i].kind = "SubmitOrder" =>
                  DecodeMessage(sentLog[i].bytes) = SubmitOrderOf(order)
    /\ peerFrame \in ValidLoginResponses =>
           DecodeMessage(peerFrame) = LoginResponseOf(peerFrame)
    /\ pc = "connect" =>
           /\ DecodeMessage(HeaderOnlyFrame(HEARTBEAT)) = [ kind |-> "Heartbeat" ]
           /\ DecodeMessage(HeaderOnlyFrame(HEARTBEAT_ACK)) = [ kind |-> "HeartbeatAck" ]

\* C13: once the four bytes of the length prefix of a response are read and
\* declare a total_length below 4 or above the configured maximum, no payload
\* is read, no frame is delivered and the connection ends with an error.
C13_FrameSizeBounds ==
    (script = "order" /\ Len(hdr) = 4
        /\ (UnpackU32(hdr) < 4 \/ UnpackU32(hdr) > MaxFrameLen)) =>
        /\ body = <<>>
        /\ pc \in { "recv_data", "closed" }
        /\ pc = "closed" => err # "none"

\* The peer's stream ends before the frame its length prefix declares is whole.
StreamEndsEarly ==
    /\ peerEof
    /\ \/ Len(Arrived) < 4
       \/ Len(Arrived) < UnpackU32(Take(Arrived, 4))

\* The frame the length prefix delimits is whole and does not decode.
DecodeFails ==
    /\ Len(Arrived) >= 4
    /\ Len(Arrived) >= UnpackU32(Take(Arrived, 4))
    /\ DecodeMessage(Take(Arrived, UnpackU32(Take(Arrived, 4)))).kind = "Error"

\* C14: when the login exchange meets a transport error, the end of the stream
\* or a frame that does not decode (unknown type, truncated, trailing bytes),
\* the receive ends with failure: the session is not Authenticated and
\* authentication is not reported as successful.
C14_FatalErrorsClose ==
    ( /\ script = "auth"
      /\ result # "none"
      /\ (err = "socket" \/ StreamEndsEarly \/ DecodeFails) ) =>
        /\ result = "false"
        /\ state # "Authenticated"
        /\ pc = "closed" => state = "Closed"

\* receive_login_response has ended, by a return or by an exception.
LoginReceiveEnded == script = "auth" /\ result # "none"

\* A whole header was unpacked and its success byte is not zero.
HeaderSaysSuccess == Len(hdr) = LOGIN_RESPONSE_HEADER_SIZE /\ hdr[6] # 0

\* C17 (as claimed): receive_login_response returns True exactly when a header
\* was read with a non-zero success byte and either message_len is 0, with no
\* body read, or a non-empty body was read; in every other case it returns
\* False, and it never ends by an exception.
C17_ReturnsTrueExactly ==
    /\ LoginReceiveEnded =>
           /\ result \in { "true", "false" }
           /\ (result = "true") <=>
                  /\ HeaderSaysSuccess
                  /\ \/ MessageLen(hdr) = 0 /\ body = <<>>
                     \/ MessageLen(hdr) > 0 /\ body # <<>>
    /\ (script = "auth" /\ LoginRequestSent /\ pc \in { "authenticated", "closed" }) =>
           result # "none"

\* C17 (amended): receive_login_response returns True exactly when a header was
\* read with a non-zero success byte and either message_len is 0, with no body
\* read, or a non-empty body was read that is valid UTF-8; it raises
\* UnicodeDecodeError exactly when a non-empty body was read that is not valid
\* UTF-8, whatever the success byte; in every other case (the peer closes
\* before the header or before a declared body, the header cannot be unpacked,
\* a recv raises, the success byte is 0) it returns False.
C17_ReturnsTrueUtf8 ==
    /\ LoginReceiveEnded =>
           /\ result \in { "true", "false", "raised" }
           /\ (result = "true") <=>
                  /\ HeaderSaysSuccess
                  /\ \/ MessageLen(hdr) = 0 /\ body = <<>>
                     \/ MessageLen(hdr) > 0 /\ body # <<>> /\ Utf8Valid(body)
           /\ (result = "raised") <=>
                  /\ Len(hdr) = LOGIN_RESPONSE_HEADER_SIZE
                  /\ MessageLen(hdr) > 0
                  /\ body # <<>>
                  /\ ~Utf8Valid(body)
           /\ err \in { "eof_header", "eof_body", "struct", "socket" } => result = "false"
           /\ result = "true" <=> state = "Authenticated" \/ (pc = "closed" /\ err = "none")
    /\ (script = "auth" /\ LoginRequestSent /\ pc \in { "authenticated", "closed" }) =>
           result # "none"

\* C17's case: a success header announcing a message, and a non-empty body read
\* that is not valid UTF-8: the function has ended by UnicodeDecodeError.
C17_Witness ==
    /\ LoginReceiveEnded
    /\ HeaderSaysSuccess
    /\ MessageLen(hdr) > 0
    /\ body # <<>>
    /\ result = "raised"

(***************************************************************************)
(* Persistence test (scripts/test_persistence.py): test_persistence, step  *)
(* by step.  A step that raises an exception no except clause catches ends *)
(* the function at once, with whatever is open left open.                  *)
(***************************************************************************)
PersistInit ==
    /\ pPc = "db_connect"
    /\ pConn = "none"
    /\ pSock = "none"
    /\ pSock2 = "none"
    /\ pOrders = None
    /\ pTrades = None
    /\ pReport = "none"
    /\ pResult = "none"

PersistRest == << connVars, sessVars, codecVars, liveVars, headerVars >>

\* An exception leaves the function.
Raises ==
    /\ pPc' = "done"
    /\ pResult' = "raised"
    /\ UNCHANGED << pConn, pSock, pSock2, pOrders, pTrades, pReport >>

\* close() on a connection that was established.
Closed(c) == IF c = "open" THEN "closed" ELSE c

\* A failure branch: close what the branch closes and return False.
ReturnsFalse(closeSock, closeSock2) ==
    /\ pPc' = "done"
    /\ pResult' = "false"
    /\ pConn' = Closed(pConn)
    /\ pSock' = (IF closeSock THEN Closed(pSock) ELSE pSock)
    /\ pSock2' = (IF closeSock2 THEN Closed(pSock2) ELSE pSock2)
    /\ UNCHANGED << pOrders, pTrades, pReport >>

Goes(next) ==
    /\ pPc' = next
    /\ UNCHANGED << pConn, pSock, pSock2, pOrders, pTrades, pReport, pResult >>

\* Step 1: psycopg2.connect inside try/except Exception.
DbConnect ==
    /\ pPc = "db_connect"
    /\ \/ /\ pConn' = "open"
          /\ pPc' = "clear"
          /\ UNCHANGED << pSock, pSock2, pOrders, pTrades, pReport, pResult >>
       \/ /\ pPc' = "done"
          /\ pResult' = "false"
          /\ UNCHANGED << pConn, pSock, pSock2, pOrders, pTrades, pReport >>
    /\ UNCHANGED PersistRest

\* Step 2: the two DELETEs and the commit, outside any try.
ClearTestData ==
    /\ pPc = "clear"
    /\ \/ Goes("connect")
       \/ Raises
    /\ UNCHANGED PersistRest

\* Step 3: the buyer's socket, inside try/except Exception.
SockConnect ==
    /\ pPc = "connect"
    /\ \/ /\ pSock' = "open"
          /\ pPc' = "auth_buyer"
          /\ UNCHANGED << pConn, pSock2, pOrders, pTrades, pReport, pResult >>
       \/ ReturnsFalse(FALSE, FALSE)
    /\ UNCHANGED PersistRest

\* message sent with sendall: it returns, or raises.
SendAll(next) ==
    \/ Goes(next)
    \/ Raises

\* json.loads(recv(4096).decode()) and the test of its status: "success",
\* another status (the branch that closes and returns False), or an exception
\* from recv, decode or json.loads.
RecvResponse(next, closeSock2) ==
    \/ Goes(next)
    \/ ReturnsFalse(TRUE, closeSock2)
    \/ Raises

\* Step 4: response = send_order(sock, auth_buyer).
AuthBuyer ==
    /\ \/ pPc = "auth_buyer" /\ SendAll("auth_buyer_recv")
       \/ pPc = "auth_buyer_recv" /\ RecvResponse("connect2", FALSE)
    /\ UNCHANGED PersistRest

\* Step 4: sock2 = socket.socket(...); sock2.connect(...), outside any try.
Sock2Connect ==
    /\ pPc = "connect2"
    /\ \/ /\ pSock2' = "open"
          /\ pPc' = "auth_seller"
          /\ UNCHANGED << pConn, pSock, pOrders, pTrades, pReport, pResult >>
       \/ Raises
    /\ UNCHANGED PersistRest

\* Step 4: the seller's authentication on sock2.
AuthSeller ==
    /\ \/ pPc = "auth_seller" /\ SendAll("auth_seller_recv")
       \/ pPc = "auth_seller_recv" /\ RecvResponse("sell", TRUE)
    /\ UNCHANGED PersistRest

\* Step 5: the sell order on sock2.
SellOrder ==
    /\ \/ pPc = "sell" /\ SendAll("sell_recv")
       \/ pPc = "sell_recv" /\ RecvResponse("buy", TRUE)
    /\ UNCHANGED PersistRest

\* Step 5: response = send_order(sock, buy_order).
BuyOrder ==
    /\ \/ pPc = "buy" /\ SendAll("buy_recv")
       \/ pPc = "buy_recv" /\ RecvResponse("query_orders", TRUE)
    /\ UNCHANGED PersistRest

\* Step 7: the orders query; orders = cursor.fetchall().
QueryOrders ==
    /\ pPc = "query_orders"
    /\ \/ /\ \E n \in 0..MaxRows : pOrders' = n
          /\ pPc' = "query_trades"
          /\ UNCHANGED << pConn, pSock, pSock2, pTrades, pReport, pResult >>
       \/ Raises
    /\ UNCHANGED PersistRest

\* Step 8: the trades query; trades = cursor.fetchall().
QueryTrades ==
    /\ pPc = "query_trades"
    /\ \/ /\ \E n \in 0..MaxRows : pTrades' = n
          /\ pPc' = "cleanup"
          /\ UNCHANGED << pConn, pSock, pSock2, pOrders, pReport, pResult >>
       \/ Raises
    /\ UNCHANGED PersistRest

\* Cleanup: sock.close(); sock2.close(); cursor.close(); conn.close().
Cleanup ==
    /\ \/ /\ pPc = "cleanup"
          /\ pSock' = Closed(pSock)
          /\ pPc' = "cleanup_sock2"
          /\ UNCHANGED << pSock2, pConn >>
       \/ /\ pPc = "cleanup_sock2"
          /\ pSock2' = Closed(pSock2)
          /\ pPc' = "cleanup_conn"
          /\ UNCHANGED << pSock, pConn >>
       \/ /\ pPc = "cleanup_conn"
          /\ pConn' = Closed(pConn)
          /\ pPc' = "verdict"
          /\ UNCHANGED << pSock, pSock2 >>
    /\ UNCHANGED << pOrders, pTrades, pReport, pResult >>
    /\ UNCHANGED PersistRest

\* The final if: len(orders) >= 2.
Passed(orders, trades) == orders >= 2

\* The verdict printed and the value returned.
Verdict ==
    /\ pPc = "verdict"
    /\ IF Passed(pOrders, pTrades)
         THEN pReport' = "PASSED" /\ pResult' = "true"
         ELSE pReport' = "INCOMPLETE" /\ pResult' = "false"
    /\ pPc' = "done"
    /\ UNCHANGED << pConn, pSock, pSock2, pOrders, pTrades >>
    /\ UNCHANGED PersistRest

PersistSpecInit ==
    ConnIdle /\ SessionInit /\ CodecIdle /\ LiveIdle /\ HeaderIdle /\ PersistInit

PersistNext ==
    \/ DbConnect
    \/ ClearTestData
    \/ SockConnect
    \/ AuthBuyer
    \/ Sock2Connect
    \/ AuthSeller
    \/ SellOrder
    \/ BuyOrder
    \/ QueryOrders
    \/ QueryTrades
    \/ Cleanup
    \/ Verdict

PersistSpec == PersistSpecInit /\ [][PersistNext]_vars

\* C18 (as claimed): the test reports PASSED and returns True only when at
\* least two orders and at least one trade were found.
C18_PassedNeedsOrdersAndTrades ==
    (pReport = "PASSED" \/ pResult = "true") =>
        /\ pOrders # None /\ pOrders >= 2
        /\ pTrades # None /\ pTrades >= 1

\* C20 (as claimed): when test_persistence has ended, every connection that was
\* established has been closed.
C20_EverythingClosed ==
    pPc = "done" => (pConn # "open" /\ pSock # "open" /\ pSock2 # "open")

(***************************************************************************)
(* Live dashboard (live.py): price_stream and index_stream run as threads  *)
(* beside plot_loop; the three share latest_prices, index_values and       *)
(* timestamps with no lock, so any statement of one may run between two    *)
(* statements of another.                                                  *)
(***************************************************************************)
LIVE_SYMBOLS == { "AAPL", "GOOGL" }
StreamSymbols == LIVE_SYMBOLS \cup { "XYZ" }
StreamValues == { 1, 2 }

LiveInit ==
    /\ latest_prices = [ sym \in LIVE_SYMBOLS |-> 0 ]
    /\ index_values = <<>>
    /\ timestamps = <<>>
    /\ lIndexPc = "next_update"
    /\ lPlotPc = "plot_x"
    /\ lSeenX = None
    /\ lSeenY = None
    /\ lUpdates = 0

LiveRest == << connVars, sessVars, codecVars, persistVars, headerVars >>

\* The daemon threads run until the interpreter shuts down: when plot_loop,
\* the main thread, has raised they still take updates while the traceback is
\* printed, and stop with the process.
Running == lPlotPc # "exited"

\* price_stream: one snapshot of one update.
PriceUpdate ==
    /\ Running
    /\ lUpdates < MaxUpdates
    /\ lUpdates' = lUpdates + 1
    /\ \E sym \in StreamSymbols, price \in StreamValues :
          latest_prices' = IF sym \in DOMAIN latest_prices
                             THEN [ latest_prices EXCEPT ![sym] = price ]
                             ELSE latest_prices
    /\ UNCHANGED << index_values, timestamps, lIndexPc, lPlotPc, lSeenX, lSeenY >>
    /\ UNCHANGED LiveRest

\* index_stream: index_values.append(update.index_value).
IndexAppendValue ==
    /\ Running
    /\ lIndexPc = "next_update"
    /\ lUpdates < MaxUpdates
    /\ lUpdates' = lUpdates + 1
    /\ \E v \in StreamValues : index_values' = Append(index_values, v)
    /\ lIndexPc' = "append_time"
    /\ UNCHANGED << latest_prices, timestamps, lPlotPc, lSeenX, lSeenY >>
    /\ UNCHANGED LiveRest

\* index_stream: timestamps.append(time.time()).
IndexAppendTime ==
    /\ Running
    /\ lIndexPc = "append_time"
    /\ timestamps' = Append(timestamps, lUpdates)
    /\ lIndexPc' = "next_update"
    /\ UNCHANGED << latest_prices, index_values, lPlotPc, lSeenX, lSeenY, lUpdates >>
    /\ UNCHANGED LiveRest

\* plot_loop: ax1.plot reads timestamps.
PlotReadTimestamps ==
    /\ lPlotPc = "plot_x"
    /\ lSeenX' = Len(timestamps)
    /\ lSeenY' = None
    /\ lPlotPc' = "plot_y"
    /\ UNCHANGED << latest_prices, index_values, timestamps, lIndexPc, lUpdates >>
    /\ UNCHANGED LiveRest

\* plot_loop: ax1.plot reads index_values, and raises ValueError when x and y
\* differ in length.
PlotReadIndexValues ==
    /\ lPlotPc = "plot_y"
    /\ lSeenY' = Len(index_values)
    /\ lPlotPc' = (IF lSeenX = lSeenY' THEN "bar" ELSE "raised")
    /\ UNCHANGED << latest_prices, index_values, timestamps, lIndexPc, lSeenX, lUpdates >>
    /\ UNCHANGED LiveRest

\* plot_loop: ax2.bar(latest_prices...), plt.pause(1), and round again.
PlotBar ==
    /\ lPlotPc = "bar"
    /\ lPlotPc' = "plot_x"
    /\ UNCHANGED << latest_prices, index_values, timestamps, lIndexPc, lSeenX, lSeenY,
                    lUpdates >>
    /\ UNCHANGED LiveRest

\* __main__: plot_loop() has raised, the main thread is over and the
\* interpreter shuts down, ending the daemon threads with it.
InterpreterExit ==
    /\ lPlotPc = "raised"
    /\ lPlotPc' = "exited"
    /\ UNCHANGED << latest_prices, index_values, timestamps, lIndexPc, lSeenX, lSeenY,
                    lUpdates >>
    /\ UNCHANGED LiveRest

LiveSpecInit ==
    ConnIdle /\ SessionInit /\ CodecIdle /\ PersistIdle /\ HeaderIdle /\ LiveInit

LiveNext ==
    \/ PriceUpdate
    \/ IndexAppendValue
    \/ IndexAppendTime
    \/ PlotReadTimestamps
    \/ PlotReadIndexValues
    \/ PlotBar
    \/ InterpreterExit

LiveSpec == LiveSpecInit /\ [][LiveNext]_vars

\* C19 (as claimed): whenever plot_loop has read timestamps and index_values
\* for one plot, the two lists it read have the same length, and the plot does
\* not fail.
C19_SameLength ==
    /\ (lSeenX # None /\ lSeenY # None) => lSeenX = lSeenY
    /\ lPlotPc \notin { "raised", "exited" }

(***************************************************************************)
(* License headers (add_liocense.py): add_header walks the tree and        *)
(* prepends a header to the files it matches.  A file name is a sequence   *)
(* of characters; a text is a sequence of pieces, the copyright marker     *)
(* being two pieces in a row.                                              *)
(***************************************************************************)
MarkerLead == "Copyright (c) 2026 "
MarkerName == "Ayon Sarkar"

\* The text add_header looks for: "Copyright (c) 2026 Ayon Sarkar".
MARKER == << MarkerLead, MarkerName >>

C_STYLE_HEADER ==
    << "/*\n * ", MarkerLead, MarkerName, ". All Rights Reserved. [...]\n */\n\n" >>
PY_STYLE_HEADER ==
    << "# ", MarkerLead, MarkerName, ". All Rights Reserved. [...]\n\n" >>

CMAKELISTS == << "C", "M", "a", "k", "e", "L", "i", "s", "t", "s", ".", "t", "x", "t" >>

CStyleKeys ==
    { << ".", "c", "p", "p" >>,
      << ".", "h" >>,
      << ".", "h", "p", "p" >>,
      << ".", "c" >>,
      << ".", "s", "w", "i", "f", "t" >>,
      << ".", "t", "s" >>,
      << ".", "j", "s" >>,
      << ".", "j", "a", "v", "a" >>,
      << ".", "g", "o" >> }
PyStyleKeys ==
    { << ".", "p", "y" >>,
      << ".", "s", "h" >>,
      << ".", "c", "m", "a", "k", "e" >>,
      CMAKELISTS }

FILE_TYPES ==
    [ k \in CStyleKeys \cup PyStyleKeys |->
        IF k \in CStyleKeys THEN C_STYLE_HEADER ELSE PY_STYLE_HEADER ]

IGNORE_DIRS ==
    { ".git", "build", "node_modules", ".vs", ".vscode", "dist", "target", "vcpkg_installed" }

\* The positions of the dots of a name that follow a character other than a dot.
ExtDots(name) ==
    { i \in 1..Len(name) : name[i] = "." /\ \E j \in 1..(i - 1) : name[j] # "." }

\* The last dot of a name.
LastDot(name) ==
    CHOOSE i \in 1..Len(name) : name[i] = "." /\ \A j \in (i + 1)..Len(name) : name[j] # "."

\* os.path.splitext(file)[1]: the name from its last dot on, empty when the
\* name has no dot or only leading dots before it.
SplitExt(name) ==
    IF \E i \in 1..Len(name) : name[i] = "."
      THEN IF LastDot(name) \in ExtDots(name)
             THEN SubSeq(name, LastDot(name), Len(name))
             ELSE <<>>
      ELSE <<>>

NoHeader == <<>>

\* header_to_use: the CMakeLists.txt special case, then the extension.
HeaderToUse(name) ==
    IF name = CMAKELISTS THEN PY_STYLE_HEADER
    ELSE IF SplitExt(name) \in DOMAIN FILE_TYPES THEN FILE_TYPES[SplitExt(name)]
    ELSE NoHeader

\* needle in text: the needle's pieces stand in a row somewhere in the text.
IsInfix(needle, text) ==
    \E i \in 0..(Len(text) - Len(needle)) :
        SubSeq(text, i + 1, i + Len(needle)) = needle

\* Mutant: the safety check never finds the marker.
AlreadyMarked_Never(text) == FALSE

\* The safety check: "Copyright (c) 2026 Ayon Sarkar" in content.
AlreadyMarked(text) == IsInfix(MARKER, text)

\* A piece that is not UTF-8: open(path, "r", encoding="utf-8").read() raises.
Undecodable == "\\xff"
Readable(text) == \A i \in 1..Len(text) : text[i] # Undecodable

\* f.read() of a file opened in text mode: universal newlines turn "\r\n" and
\* a lone "\r" into "\n".
RECURSIVE ReadText(_)
ReadText(text) ==
    IF text = <<>> THEN <<>>
    ELSE IF text[1] = "\r\n" THEN << "\n" >> \o ReadText(Tail(text))
    ELSE IF text[1] = "\r" /\ Len(text) >= 2 /\ text[2] = "\n"
      THEN << "\n" >> \o ReadText(SubSeq(text, 3, Len(text)))
    ELSE IF text[1] = "\r" THEN << "\n" >> \o ReadText(Tail(text))
    ELSE << text[1] >> \o ReadText(Tail(text))

\* os.walk with dirs[:] pruned: the files no directory of whose path is ignored.
Walked(file) == \A i \in 1..Len(file.dir) : file.dir[i] \notin IGNORE_DIRS

\* The body of the loop for one file: the content it leaves in the file.  The
\* file is rewritten from the text as read, so with its line endings turned
\* into "\n" (f.write leaves "\n" as it is where os.linesep is "\n").
Processed(file, content) ==
    IF HeaderToUse(file.name) = NoHeader THEN content
    ELSE IF ~Readable(content) THEN content
    ELSE IF AlreadyMarked(ReadText(content)) THEN content
    ELSE IF ~file.writable THEN content
    ELSE HeaderToUse(file.name) \o ReadText(content)

\* The trees add_header is run on: three files it matches (one of them
\* possibly read-only), one file under an ignored directory, and one file
\* whose name has no listed extension.
IgnoredPaths == { << "build" >>, << "src", "build" >>, << ".git", "hooks" >> }
UnlistedNames ==
    { << "d", ".", "t", "x", "t" >>,
      << ".", "p", "y" >>,
      << "e", ".", "P", "Y" >>,
      << "M", "a", "k", "e", "f", "i", "l", "e" >> }

Trees ==
    { << [ dir |-> <<>>, name |-> << "a", ".", "p", "y" >>, writable |-> TRUE ],
         [ dir |-> << "src" >>, name |-> << "b", ".", "c", "p", "p" >>, writable |-> w ],
         [ dir |-> << "src" >>, name |-> CMAKELISTS, writable |-> TRUE ],
         [ dir |-> d, name |-> << "c", ".", "p", "y" >>, writable |-> TRUE ],
         [ dir |-> << "src" >>, name |-> n, writable |-> TRUE ] >> :
        w \in BOOLEAN, d \in IgnoredPaths, n \in UnlistedNames }

\* What a file may hold before the first run: plain text, a text whose lines
\* end in "\r\n" and in a lone "\r", a text with the beginning of the marker
\* only, a text with the marker (and a "\r\n"), bytes that are not UTF-8.
CrText == << "x", "\r\n", "y", "\r", "\n", "z", "\r" >>
MarkedText == << "x", "\r\n", MarkerLead, MarkerName >>
Texts ==
    { << "x" >>, CrText, << MarkerLead, "x" >>, MarkedText, << Undecodable >> }
PlainTexts == { CrText, MarkedText }

FileIds == 1..5
MatchedIds == 1..3

HeaderInit ==
    /\ hFiles \in Trees
    /\ hOrig \in [ FileIds -> Texts ]
    /\ \A f \in FileIds \ MatchedIds : hOrig[f] \in PlainTexts
    /\ hContent = hOrig
    /\ hVisited = {}
    /\ hRuns = 0
    /\ hOnce = <<>>
    /\ hCount = 0

HeaderRest == << connVars, sessVars, codecVars, persistVars, liveVars >>

\* add_header: the loop body for one file of the walk, in whatever order
\* os.walk lists the files.
ProcessFile ==
    /\ hRuns < MaxRuns
    /\ \E f \in FileIds \ hVisited :
          /\ Walked(hFiles[f])
          /\ hContent' = [ hContent EXCEPT ![f] = Processed(hFiles[f], hContent[f]) ]
          /\ hCount' = IF hContent'[f] # hContent[f] THEN hCount + 1 ELSE hCount
          /\ hVisited' = hVisited \cup { f }
    /\ UNCHANGED << hFiles, hOrig, hRuns, hOnce >>
    /\ UNCHANGED HeaderRest

\* add_header: the walk is over and the function returns.
FinishRun ==
    /\ hRuns < MaxRuns
    /\ hVisited = { f \in FileIds : Walked(hFiles[f]) }
    /\ hRuns' = hRuns + 1
    /\ hOnce' = IF hRuns = 0 THEN hContent ELSE hOnce
    /\ hVisited' = {}
    /\ hCount' = 0
    /\ UNCHANGED << hFiles, hOrig, hContent >>
    /\ UNCHANGED HeaderRest

HeaderSpecInit ==
    ConnIdle /\ SessionInit /\ CodecIdle /\ PersistIdle /\ LiveIdle /\ HeaderInit

HeaderNext ==
    \/ ProcessFile
    \/ FinishRun

HeaderSpec == HeaderSpecInit /\ [][HeaderNext]_vars

\* How many times the marker stands in a text.
MarkerCount(text) ==
    Cardinality({ i \in 1..(Len(text) - 1) : SubSeq(text, i, i + 1) = MARKER })

\* C21: a file is changed only by being rewritten as a header followed by its
\* original content with the line endings turned into "\n", and only when the
\* original content lacks the marker; once one run
\* has finished, every file keeps the content it had then, during and after
\* every later run (no file gets a second header); and a file under an ignored
\* directory, or whose name has no listed extension, keeps its original
\* content.
C21_IdempotentHeaders ==
    \A f \in DOMAIN hContent :
        /\ hContent[f] # hOrig[f] =>
               /\ ~IsInfix(MARKER, hOrig[f])
               /\ hContent[f] \in { C_STYLE_HEADER \o ReadText(hOrig[f]),
                                     PY_STYLE_HEADER \o ReadText(hOrig[f]) }
               /\ MarkerCount(hContent[f]) = 1
        /\ hRuns >= 1 => hContent[f] = hOnce[f]
        /\ MarkerCount(hContent[f]) <= (IF MarkerCount(hOrig[f]) = 0 THEN 1
                                        ELSE MarkerCount(hOrig[f]))
        /\ (\E i \in 1..Len(hFiles[f].dir) : hFiles[f].dir[i] \in IGNORE_DIRS) =>
               hContent[f] = hOrig[f]
        /\ hFiles[f].name \in UnlistedNames => hContent[f] = hOrig[f]

\* C21's case: three runs have finished on a tree in which the first run put
\* a header on a file with "\r\n" and "\r" line endings, skipped a file that
\* held the marker already, and left alone an ignored and an unlisted file
\* that lacked the marker.
C21_Witness ==
    /\ hRuns = MaxRuns
    /\ hRuns >= 2
    /\ hOrig[1] = CrText
    /\ hContent[1] = PY_STYLE_HEADER \o << "x", "\n", "y", "\n", "z", "\n" >>
    /\ hOrig[2] = MarkedText
    /\ hContent[2] = MarkedText
    /\ hOrig[4] = CrText
    /\ hOrig[5] = CrText

=============================================================================
